---- MODULE Spec2Model ----
(***************************************************************************)
(* MCFontRenderer (src/MCFont.js): the atlas cache filled by concurrent    *)
(* draw() calls, and the layout that draw() computes once its pages are    *)
(* loaded.  A text is a JavaScript string: a sequence of UTF-16 code       *)
(* units.  Lengths are pixels; a fractional quantity q is kept as the      *)
(* integer 2q ("halves", names ending in 2) or 4q ("quarters", ending in   *)
(* 4), and Math.round is computed on the exact quotient.                   *)
(***************************************************************************)
EXTENDS Integers, Sequences, FiniteSets, TLC

VARIABLES
    ascii,      \* this.ascii: <<>> (null) until init() has loaded default8.png
    quoteAlt,   \* this.quoteAlt: code -> pack, {} until init()
    glyphs,     \* this.glyphs: Map page id -> pack
    pc,         \* per draw() call: where the call is
    text,       \* per call: its text argument
    opts,       \* per call: its options, defaults filled in
    need,       \* per call: the Set of pages handed to _ensureGlyphPacks
    jobs,       \* per call: page -> state of the load job the call started
    plan,       \* per call: what the layout produced (spans, runs, penX, ...)
    gl,         \* per call: the calls made on the WebGL context, in order
    canvas      \* the pixels of the canvas of glyph_00.png: as decoded, then
                \* after each application of _normalizeGlyph00LeftMargins

vars == <<ascii, quoteAlt, glyphs, pc, text, opts, need, jobs, plan, gl, canvas>>

-----------------------------------------------------------------------------
(* Bounds of the model *)

\* number of draw() calls that may overlap in time
MaxDraws == 2
\* longest text, in UTF-16 code units
MaxLen == 3

Draws == 1..MaxDraws

\* space  "  '  A  U+AC00  and the surrogate pair of U+1F600
Alphabet == {32, 34, 39, 65, 44032, 55357, 56832}

Texts == UNION {[1..n -> Alphabet] : n \in 0..MaxLen}

\* the texts of the calls that overlap: U+AC00 (page AC) and " (page 00 in
\* mode 'glyph', no page in mode 'mixed')
ConcTexts == {<<44032>>, <<34>>}

-----------------------------------------------------------------------------
(* Numbers *)

\* Math.round(n / d) for d > 0: the nearest integer, a tie going up
Round(n, d) == (2 * n + d) \div (2 * d)

grid == 16

HexDigit == <<"0", "1", "2", "3", "4", "5", "6", "7",
              "8", "9", "A", "B", "C", "D", "E", "F">>

\* n.toString(16).padStart(2, '0').toUpperCase() for n in 0..255
Hex2(n) == HexDigit[(n \div 16) + 1] \o HexDigit[(n % 16) + 1]

isAsciiCode(cp) == cp <= 127

\* ((cp >>> 8) & 0xFF) as two upper-case hex digits
codeHi(cp) == Hex2((cp \div 256) % 256)

codeLo(cp) == cp % 256

-----------------------------------------------------------------------------
(* Strings *)

IsHighSurrogate(u) == u >= 55296 /\ u <= 56319
IsLowSurrogate(u) == u >= 56320 /\ u <= 57343

\* whether a surrogate pair starts at index i (1-based) of t
PairAt(t, i) ==
    /\ i < Len(t)
    /\ IsHighSurrogate(t[i])
    /\ IsLowSurrogate(t[i + 1])

\* String.prototype.codePointAt, index i 1-based
codePointAt(t, i) ==
    IF PairAt(t, i)
    THEN 65536 + (t[i] - 55296) * 1024 + (t[i + 1] - 56320)
    ELSE t[i]

\* the string iterator (for..of, [...text]): the code points from index i on
RECURSIVE CodePointsFrom(_, _)
CodePointsFrom(t, i) ==
    IF i > Len(t) THEN <<>>
    ELSE <<codePointAt(t, i)>> \o CodePointsFrom(t, IF PairAt(t, i) THEN i + 2 ELSE i + 1)

CodePoints(t) == CodePointsFrom(t, 1)

Range(s) == {s[i] : i \in 1..Len(s)}

-----------------------------------------------------------------------------
(* The font assets: what the images at basePath hold.  An atlas is 16 x 16  *)
(* tiles; default8.png has 8 x 8 tiles, glyph_XX.png 16 x 16 tiles.         *)

ImageW(page) == IF page = "ASCII" THEN 128 ELSE 256
ImageH(page) == IF page = "ASCII" THEN 128 ELSE 256

\* _buildAdvance on the image of the page: adv[idx], idx in 0..255
FontAdv(page, idx) ==
    IF page = "ASCII"
    THEN CASE idx = 32 -> 8
           [] idx = 34 -> 5
           [] idx = 39 -> 3
           [] idx = 65 -> 6
           [] idx = 72 -> 6
           [] idx = 105 -> 2
           [] OTHER -> 7
    ELSE IF page = "00"
    THEN CASE idx = 32 -> 16
           [] idx = 34 -> 6
           [] idx = 39 -> 4
           [] idx = 65 -> 9
           [] OTHER -> 12
    ELSE IF idx = 0 THEN 15 ELSE 13

\* _buildVerticalMetrics on the image of the page: 2 * vmet.centerRow
FontCenterRow2(page) ==
    CASE page = "ASCII" -> 7
      [] page = "00" -> 15
      [] page = "AC" -> 16
      [] OTHER -> 14

\* the pack _loadAtlas returns for a page; tex is the texture it created,
\* a new one for every load (by: the draw() call whose job loaded it, 0: init)
loadAtlas(page, by) ==
    [tex |-> <<page, by>>,
     w |-> ImageW(page),
     h |-> ImageH(page),
     centerRow2 |-> FontCenterRow2(page)]

\* the single-tile pack buildAlt returns for a quote character
buildAlt(code) == [tex |-> <<"quoteAlt", code>>, w |-> 8, h |-> 8]

\* pack.adv[idx] ?? dflt: adv is a Uint16Array(256)
advOr(pack, idx, dflt) ==
    IF idx \in 0..255 THEN FontAdv(pack.tex[1], idx) ELSE dflt

\* this.glyphs.get(hi): <<pack>>, or <<>> (undefined)
glyphsGet(g, hi) == IF hi \in DOMAIN g THEN <<g[hi]>> ELSE <<>>

\* this.glyphs.set(hi, p)
glyphsSet(g, hi, p) ==
    [k \in (DOMAIN g) \cup {hi} |-> IF k = hi THEN p ELSE g[k]]

-----------------------------------------------------------------------------
(* draw(): options *)

Modes == {"auto", "mixed", "default", "glyph"}
Baselines == {"ascii", "glyph", "auto"}

\* the destructuring defaults of draw(text, opts)
DefaultOpts ==
    [scale |-> 2, shadow |-> TRUE, ds2 |-> 3, spaceMul2 |-> 1, spacingMul2 |-> 2,
     mode |-> "auto", baseline |-> "ascii",
     glyphTrackPx2 |-> 4, asciiAfterGlyphPadPx2 |-> 5]

\* dp(n) = Math.round(n * scale), for n = n2 / 2 and n = n4 / 4
dp2(o, n2) == Round(n2 * o.scale, 2)
dp4(o, n4) == Round(n4 * o.scale, 4)

-----------------------------------------------------------------------------
(* draw(): mode resolution, page discovery, baseline *)

AllAscii(t) == \A cp \in Range(CodePoints(t)) : isAsciiCode(cp)

\* mutant of defaultOnlyOf: 'auto' resolves a text that is not all ASCII to
\* mixed
defaultOnlyAutoMixed(t, mode) ==
    IF mode = "default" THEN "true"
    ELSE IF mode = "glyph" THEN "false"
    ELSE IF mode = "mixed" THEN "null"
    ELSE IF AllAscii(t) THEN "true" ELSE "null"

\* defaultOnly: "true" (only ascii), "false" (only glyph), "null" (mixed)
defaultOnlyOf(t, mode) ==
    IF mode = "default" THEN "true"
    ELSE IF mode = "glyph" THEN "false"
    ELSE IF mode = "mixed" THEN "null"
    ELSE IF AllAscii(t) THEN "true" ELSE "false"

\* the Set need
needOf(t, mode) ==
    LET dOnly == defaultOnlyOf(t, mode)
        cps == Range(CodePoints(t))
    IN  (IF dOnly = "false" \/ mode = "glyph" THEN {"00"} ELSE {})
        \cup
        (IF dOnly = "false" \/ mode = "glyph"
         THEN {codeHi(cp) : cp \in cps}
         ELSE IF dOnly = "null"
         THEN {codeHi(cp) : cp \in {c \in cps : ~isAsciiCode(c)}}
         ELSE {})

\* mutant of hasGlyphOf: the clause of mode 'auto' is missing
hasGlyphNoAuto(t, mode) ==
    \/ mode = "glyph"
    \/ (mode = "mixed" /\ ~AllAscii(t))

hasGlyphOf(t, mode) ==
    \/ mode = "glyph"
    \/ (mode = "mixed" /\ ~AllAscii(t))
    \/ (mode = "auto" /\ defaultOnlyOf(t, mode) # "true")

\* refCenter, in quarters of a pixel; glyph00 is <<pack>> or <<>>
refCenter4Of(o, hasGlyph, asciiPack, glyph00) ==
    LET wide == IF glyph00 # <<>> THEN 2 * glyph00[1].centerRow2
                ELSE asciiPack.centerRow2 * 4
    IN  IF o.baseline = "ascii"
        THEN asciiPack.centerRow2 * (IF hasGlyph THEN 4 ELSE o.ds2)
        ELSE IF o.baseline = "glyph" THEN wide
        ELSE IF hasGlyph THEN wide ELSE asciiPack.centerRow2 * o.ds2

-----------------------------------------------------------------------------
(* draw(): the spans.  A layout context c holds what the closures capture:  *)
(* t, o, dOnly, ref4, asciiPack, glyph00, g (this.glyphs), qa               *)
(* (this.quoteAlt).  A layout state st holds the mutable locals: spans,     *)
(* penX, prevKind, dqCount, sqCount.  A UV coordinate is a fraction n/d.    *)

Frac(n, d) == [n |-> n, d |-> d]

pushQuad(st, pack, x, y, w, h, u0, v0, u1, v1) ==
    Append(st.spans,
           [pack |-> pack, x |-> x, y |-> y, w |-> w, h |-> h,
            u0 |-> u0, v0 |-> v0, u1 |-> u1, v1 |-> v1])

\* mutant of quoteAltUsed: the even occurrences take the alternate
quoteAltUsedEven(c, code, count) ==
    /\ c.dOnly # "false"
    /\ code \in {34, 39}
    /\ count % 2 = 0
    /\ code \in DOMAIN c.qa

\* whether pushAscii replaces the tile of this quote by its alternate:
\* count is the counter after ++
quoteAltUsed(c, code, count) ==
    /\ c.dOnly # "false"
    /\ code \in {34, 39}
    /\ count % 2 = 1
    /\ code \in DOMAIN c.qa

\* mutant of pushAscii: the advance lacks the extra scale ds
pushAsciiNoDs(c, st, code) ==
    LET o == c.o
        pen == IF /\ c.dOnly = "null"
                  /\ st.prevKind = "glyph"
                  /\ o.asciiAfterGlyphPadPx2 > 0
               THEN st.penX + Round(o.scale * o.asciiAfterGlyphPadPx2, 2)
               ELSE st.penX
        cx == code % grid
        cy == code \div grid
        counted == c.dOnly # "false"
        dq == IF counted /\ code = 34 THEN st.dqCount + 1 ELSE st.dqCount
        sq == IF counted /\ code = 39 THEN st.sqCount + 1 ELSE st.sqCount
        alt == quoteAltUsed(c, code, IF code = 34 THEN dq ELSE sq)
        pack == IF alt THEN c.qa[code] ELSE c.asciiPack
        u0 == IF alt THEN Frac(0, 1) ELSE Frac(cx * 8, c.asciiPack.w)
        v0 == IF alt THEN Frac(0, 1) ELSE Frac(cy * 8, c.asciiPack.h)
        u1 == IF alt THEN Frac(1, 1) ELSE Frac((cx + 1) * 8, c.asciiPack.w)
        v1 == IF alt THEN Frac(1, 1) ELSE Frac((cy + 1) * 8, c.asciiPack.h)
        myCenter4 == c.asciiPack.centerRow2 * o.ds2
        yShift == dp4(o, c.ref4 - myCenter4)
        size == dp2(o, 8 * o.ds2)
    IN  [spans |-> pushQuad(st, pack, pen, yShift, size, size, u0, v0, u1, v1),
         penX |-> pen + Round(dp2(o, advOr(c.asciiPack, code, 9) * 2) * o.spacingMul2, 2),
         prevKind |-> "ascii",
         dqCount |-> dq,
         sqCount |-> sq]

pushAscii(c, st, code) ==
    LET o == c.o
        pen == IF /\ c.dOnly = "null"
                  /\ st.prevKind = "glyph"
                  /\ o.asciiAfterGlyphPadPx2 > 0
               THEN st.penX + Round(o.scale * o.asciiAfterGlyphPadPx2, 2)
               ELSE st.penX
        cx == code % grid
        cy == code \div grid
        counted == c.dOnly # "false"
        dq == IF counted /\ code = 34 THEN st.dqCount + 1 ELSE st.dqCount
        sq == IF counted /\ code = 39 THEN st.sqCount + 1 ELSE st.sqCount
        alt == quoteAltUsed(c, code, IF code = 34 THEN dq ELSE sq)
        pack == IF alt THEN c.qa[code] ELSE c.asciiPack
        u0 == IF alt THEN Frac(0, 1) ELSE Frac(cx * 8, c.asciiPack.w)
        v0 == IF alt THEN Frac(0, 1) ELSE Frac(cy * 8, c.asciiPack.h)
        u1 == IF alt THEN Frac(1, 1) ELSE Frac((cx + 1) * 8, c.asciiPack.w)
        v1 == IF alt THEN Frac(1, 1) ELSE Frac((cy + 1) * 8, c.asciiPack.h)
        myCenter4 == c.asciiPack.centerRow2 * o.ds2
        yShift == dp4(o, c.ref4 - myCenter4)
        size == dp2(o, 8 * o.ds2)
    IN  [spans |-> pushQuad(st, pack, pen, yShift, size, size, u0, v0, u1, v1),
         penX |-> pen + Round(dp2(o, advOr(c.asciiPack, code, 9) * o.ds2) * o.spacingMul2, 2),
         prevKind |-> "ascii",
         dqCount |-> dq,
         sqCount |-> sq]

\* this.glyphs.get(hi) || glyph00 || asciiPack
glyphPackOf(c, hi) ==
    IF glyphsGet(c.g, hi) # <<>> THEN c.g[hi]
    ELSE IF c.glyph00 # <<>> THEN c.glyph00[1]
    ELSE c.asciiPack

pushGlyph(c, st, code) ==
    LET o == c.o
        pen == IF o.glyphTrackPx2 > 0 /\ st.prevKind = "glyph"
               THEN st.penX + Round(o.scale * o.glyphTrackPx2, 2)
               ELSE st.penX
        pack == glyphPackOf(c, codeHi(code))
        lo == codeLo(code)
        cx == lo % grid
        cy == lo \div grid
        myCenter4 == pack.centerRow2 * 2
        yShift == dp4(o, c.ref4 - myCenter4)
        size == dp2(o, 16 * 2)
    IN  [spans |-> pushQuad(st, pack, pen, yShift, size, size,
                            Frac(cx * 16, pack.w), Frac(cy * 16, pack.h),
                            Frac((cx + 1) * 16, pack.w), Frac((cy + 1) * 16, pack.h)),
         penX |-> pen + Round(dp2(o, advOr(pack, lo, 17) * 2) * o.spacingMul2, 2),
         prevKind |-> "glyph",
         dqCount |-> st.dqCount,
         sqCount |-> st.sqCount]

\* findPrev / findNext: the nearest code point that is not a space, as
\* <<cp>>, or <<>> (null)
RECURSIVE findPrev(_, _)
findPrev(t, j) ==
    IF j < 1 THEN <<>>
    ELSE IF codePointAt(t, j) # 32 THEN <<codePointAt(t, j)>>
    ELSE findPrev(t, j - 1)

RECURSIVE findNext(_, _)
findNext(t, j) ==
    IF j > Len(t) THEN <<>>
    ELSE IF codePointAt(t, j) # 32 THEN <<codePointAt(t, j)>>
    ELSE findNext(t, j + 1)

asciiSpace(c) ==
    Round(dp2(c.o, advOr(c.asciiPack, 32, 9) * c.o.ds2) * c.o.spaceMul2, 2)

glyphSpace(c) ==
    LET advG == IF c.glyph00 # <<>> THEN advOr(c.glyph00[1], 32, 17) ELSE 17
    IN  Round(dp2(c.o, advG * 2) * c.o.spaceMul2, 2)

\* mutant of pushSpace: prevKind survives the space
pushSpaceNoReset(c, st, i) ==
    LET prev == findPrev(c.t, i - 1)
        next == findNext(c.t, i + 1)
        bothAscii == /\ prev # <<>> /\ isAsciiCode(prev[1])
                     /\ next # <<>> /\ isAsciiCode(next[1])
        step == IF c.dOnly = "null"
                THEN (IF bothAscii THEN asciiSpace(c) ELSE glyphSpace(c))
                ELSE IF c.dOnly = "true" THEN asciiSpace(c)
                ELSE glyphSpace(c)
    IN  [st EXCEPT !.penX = st.penX + step]

\* the SPACE branch of the loop, at index i
pushSpace(c, st, i) ==
    LET prev == findPrev(c.t, i - 1)
        next == findNext(c.t, i + 1)
        bothAscii == /\ prev # <<>> /\ isAsciiCode(prev[1])
                     /\ next # <<>> /\ isAsciiCode(next[1])
        step == IF c.dOnly = "null"
                THEN (IF bothAscii THEN asciiSpace(c) ELSE glyphSpace(c))
                ELSE IF c.dOnly = "true" THEN asciiSpace(c)
                ELSE glyphSpace(c)
    IN  [st EXCEPT !.penX = st.penX + step, !.prevKind = "null"]

\* one iteration of for (i = 0; i < text.length; i++), index i 1-based
layoutChar(c, st, i) ==
    LET cp == codePointAt(c.t, i)
    IN  IF cp = 32 THEN pushSpace(c, st, i)
        ELSE IF c.dOnly = "true" THEN pushAscii(c, st, cp)
        ELSE IF c.dOnly = "false" THEN pushGlyph(c, st, cp)
        ELSE IF isAsciiCode(cp) THEN pushAscii(c, st, cp)
        ELSE pushGlyph(c, st, cp)

RECURSIVE layoutFrom(_, _, _)
layoutFrom(c, st, i) ==
    IF i > Len(c.t) THEN st
    ELSE layoutFrom(c, layoutChar(c, st, i), i + 1)

\* the value of penX after each iteration of the loop, from index i on
RECURSIVE pensFrom(_, _, _)
pensFrom(c, st, i) ==
    IF i > Len(c.t) THEN <<>>
    ELSE LET s2 == layoutChar(c, st, i)
         IN  <<s2.penX>> \o pensFrom(c, s2, i + 1)

\* "Batch by texture": the runs of the spans from index i on, cur being
\* the run being filled (the last of acc)
RECURSIVE batchFrom(_, _, _)
batchFrom(spans, acc, i) ==
    IF i > Len(spans) THEN acc
    ELSE LET s == spans[i]
             n == Len(acc)
         IN  IF n = 0 \/ acc[n].pack # s.pack
             THEN batchFrom(spans, Append(acc, [pack |-> s.pack, list |-> <<s>>]), i + 1)
             ELSE batchFrom(spans,
                            [acc EXCEPT ![n].list = Append(acc[n].list, s)],
                            i + 1)

\* mutant of batch: one run per atlas, a quad joining the run of its atlas
\* wherever that run is
RECURSIVE batchByPackFrom(_, _, _)
batchByPackFrom(spans, acc, i) ==
    IF i > Len(spans) THEN acc
    ELSE LET s == spans[i]
             at == {k \in 1..Len(acc) : acc[k].pack = s.pack}
         IN  IF at = {}
             THEN batchByPackFrom(spans, Append(acc, [pack |-> s.pack, list |-> <<s>>]), i + 1)
             ELSE LET k == CHOOSE k \in at : TRUE
                  IN  batchByPackFrom(spans,
                                      [acc EXCEPT ![k].list = Append(acc[k].list, s)],
                                      i + 1)

batchByPack(spans) == batchByPackFrom(spans, <<>>, 1)

batch(spans) == batchFrom(spans, <<>>, 1)

\* drawRun(run, colorArr, ox, oy): the drawArrays call it ends with
drawRun(run, color, ox, oy) ==
    [op |-> "drawArrays", pack |-> run.pack, list |-> run.list,
     color |-> color, ox |-> ox, oy |-> oy]

\* mutant of renderCalls: the shadow pass follows the colour pass
renderCallsShadowLast(runs, o) ==
    LET off == Round(o.scale, 1)
        shadowPass == [k \in 1..Len(runs) |-> drawRun(runs[k], "shadow", off, off)]
        colorPass == [k \in 1..Len(runs) |-> drawRun(runs[k], "color", 0, 0)]
    IN  colorPass \o (IF o.shadow THEN shadowPass ELSE <<>>)

\* the calls of the "Render" part of draw(), after the clear
renderCalls(runs, o) ==
    LET off == Round(o.scale, 1)
        shadowPass == [k \in 1..Len(runs) |-> drawRun(runs[k], "shadow", off, off)]
        colorPass == [k \in 1..Len(runs) |-> drawRun(runs[k], "color", 0, 0)]
    IN  (IF o.shadow THEN shadowPass ELSE <<>>) \o colorPass

\* draw() from the line after "await this._ensureGlyphPacks(need)" to the
\* end of the batching: what the call computes from the cache it finds
layout(t, o, asciiPack, qa, g) ==
    LET dOnly == defaultOnlyOf(t, o.mode)
        glyph00 == glyphsGet(g, "00")
        hasGlyph == hasGlyphOf(t, o.mode)
        ref4 == refCenter4Of(o, hasGlyph, asciiPack, glyph00)
        c == [t |-> t, o |-> o, dOnly |-> dOnly, ref4 |-> ref4,
              asciiPack |-> asciiPack, glyph00 |-> glyph00, g |-> g, qa |-> qa]
        st0 == [spans |-> <<>>, penX |-> 0, prevKind |-> "null",
                dqCount |-> 0, sqCount |-> 0]
        st == layoutFrom(c, st0, 1)
    IN  [refCenter4 |-> ref4, spans |-> st.spans, penX |-> st.penX,
         pens |-> pensFrom(c, st0, 1), runs |-> batch(st.spans)]

NoPlan ==
    [refCenter4 |-> 0, spans |-> <<>>, penX |-> 0, pens |-> <<>>, runs |-> <<>>]

-----------------------------------------------------------------------------
(* The renderer and its draw() calls *)

NoJobs == [hi \in {} |-> "pending"]

Init ==
    /\ ascii = <<>>
    /\ quoteAlt = [code \in {} |-> buildAlt(code)]
    /\ glyphs = [hi \in {} |-> loadAtlas(hi, 0)]
    /\ pc = [d \in Draws |-> "idle"]
    /\ text = [d \in Draws |-> <<>>]
    /\ opts = [d \in Draws |-> DefaultOpts]
    /\ need = [d \in Draws |-> {}]
    /\ jobs = [d \in Draws |-> NoJobs]
    /\ plan = [d \in Draws |-> NoPlan]
    /\ gl = [d \in Draws |-> <<>>]
    /\ canvas = <<>>

\* init() has loaded default8.png: _loadAtlas builds the quote alternates
\* and init() assigns this.ascii
InitDone ==
    /\ ascii = <<>>
    /\ ascii' = <<loadAtlas("ASCII", 0)>>
    /\ quoteAlt' = [code \in {34, 39} |-> buildAlt(code)]
    /\ UNCHANGED <<glyphs, pc, text, opts, need, jobs, plan, gl, canvas>>

\* the pages _ensureGlyphPacks starts a load job for
jobsToStart(set, g) == {hi \in set : glyphsGet(g, hi) = <<>>}

\* draw(t, o) is called: it runs to its await.  Every job of
\* _ensureGlyphPacks runs to the await of its image in the same step.
DrawStart(d, t, o) ==
    /\ pc[d] = "idle"
    /\ text' = [text EXCEPT ![d] = t]
    /\ opts' = [opts EXCEPT ![d] = o]
    /\ IF ascii = <<>>
       THEN /\ pc' = [pc EXCEPT ![d] = "returned"]
            /\ UNCHANGED <<need, jobs, gl>>
       ELSE /\ pc' = [pc EXCEPT ![d] = "awaiting"]
            /\ gl' = [gl EXCEPT ![d] = <<[op |-> "viewport"]>>]
            /\ need' = [need EXCEPT ![d] = needOf(t, o.mode)]
            /\ jobs' = [jobs EXCEPT ![d] =
                          [hi \in jobsToStart(needOf(t, o.mode), glyphs) |-> "pending"]]
    /\ UNCHANGED <<ascii, quoteAlt, glyphs, plan, canvas>>

\* the image of a job loads: _loadAtlas builds the pack and the job
\* installs it
LoadOk(d, hi) ==
    /\ hi \in DOMAIN jobs[d]
    /\ jobs[d][hi] = "pending"
    /\ glyphs' = glyphsSet(glyphs, hi, loadAtlas(hi, d))
    /\ jobs' = [jobs EXCEPT ![d][hi] = "done"]
    /\ UNCHANGED <<ascii, quoteAlt, pc, text, opts, need, plan, gl, canvas>>

\* mutant of LoadFail: the job installs a pack although its image failed
LoadFailCached(d, hi) ==
    /\ hi \in DOMAIN jobs[d]
    /\ jobs[d][hi] = "pending"
    /\ glyphs' = glyphsSet(glyphs, hi, loadAtlas(hi, d))
    /\ jobs' = [jobs EXCEPT ![d][hi] = "failed"]
    /\ pc' = [pc EXCEPT ![d] = IF pc[d] = "awaiting" THEN "rejected" ELSE pc[d]]
    /\ UNCHANGED <<ascii, quoteAlt, text, opts, need, plan, gl, canvas>>

\* the image of a job fails to load: the job rejects, and Promise.all
\* rejects the draw() call that awaits it
LoadFail(d, hi) ==
    /\ hi \in DOMAIN jobs[d]
    /\ jobs[d][hi] = "pending"
    /\ jobs' = [jobs EXCEPT ![d][hi] = "failed"]
    /\ pc' = [pc EXCEPT ![d] = IF pc[d] = "awaiting" THEN "rejected" ELSE pc[d]]
    /\ UNCHANGED <<ascii, quoteAlt, glyphs, text, opts, need, plan, gl, canvas>>

\* mutant of allJobsDone: the call resumes as soon as no job is in flight
\* or one job is done (Promise.race for Promise.all)
anyJobDone(d) ==
    \/ DOMAIN jobs[d] = {}
    \/ \E hi \in DOMAIN jobs[d] : jobs[d][hi] = "done"

\* whether the await of _ensureGlyphPacks can return: Promise.all of the
\* jobs has resolved
allJobsDone(d) == \A hi \in DOMAIN jobs[d] : jobs[d][hi] = "done"

\* draw() resumes after its await and runs to its end
DrawResume(d) ==
    /\ pc[d] = "awaiting"
    /\ allJobsDone(d)
    /\ LET p == layout(text[d], opts[d], ascii[1], quoteAlt, glyphs)
       IN  /\ plan' = [plan EXCEPT ![d] = p]
           /\ gl' = [gl EXCEPT ![d] =
                       gl[d] \o <<[op |-> "clear"]>> \o renderCalls(p.runs, opts[d])]
    /\ pc' = [pc EXCEPT ![d] = "done"]
    /\ UNCHANGED <<ascii, quoteAlt, glyphs, text, opts, need, jobs, canvas>>

-----------------------------------------------------------------------------
(* Overlapping draw() calls on one renderer *)

ConcOpts == {[DefaultOpts EXCEPT !.mode = m] : m \in {"glyph", "mixed"}}

Next ==
    \/ InitDone
    \/ \E d \in {e \in Draws : pc[e] = "idle"} :
          \E t \in ConcTexts, o \in ConcOpts : DrawStart(d, t, o)
    \/ \E d \in Draws : \E hi \in DOMAIN jobs[d] : LoadOk(d, hi)
    \/ \E d \in Draws : \E hi \in DOMAIN jobs[d] : LoadFail(d, hi)
    \/ \E d \in Draws : DrawResume(d)

Spec == Init /\ [][Next]_vars

-----------------------------------------------------------------------------
(* One draw() call, over every text, option and cache content *)

LayoutOpts ==
    {[DefaultOpts EXCEPT !.mode = m, !.baseline = b, !.shadow = sh, !.scale = sc] :
        m \in Modes, b \in Baselines, sh \in BOOLEAN, sc \in {1, 2}}

\* the renderer after init(), with the pages earlier calls left in the cache
InitLayout ==
    /\ ascii = <<loadAtlas("ASCII", 0)>>
    /\ quoteAlt = [code \in {34, 39} |-> buildAlt(code)]
    /\ \E cached \in SUBSET {"00"} :
          glyphs = [hi \in cached |-> loadAtlas(hi, 0)]
    /\ pc = [d \in Draws |-> "idle"]
    /\ text = [d \in Draws |-> <<>>]
    /\ opts = [d \in Draws |-> DefaultOpts]
    /\ need = [d \in Draws |-> {}]
    /\ jobs = [d \in Draws |-> NoJobs]
    /\ plan = [d \in Draws |-> NoPlan]
    /\ gl = [d \in Draws |-> <<>>]
    /\ canvas = <<>>

NextLayout ==
    \/ \E d \in {e \in {1} : pc[e] = "idle"} :
          \E t \in Texts, o \in LayoutOpts : DrawStart(d, t, o)
    \/ \E hi \in DOMAIN jobs[1] : LoadOk(1, hi)
    \/ \E hi \in DOMAIN jobs[1] : LoadFail(1, hi)
    \/ DrawResume(1)

SpecLayout == InitLayout /\ [][NextLayout]_vars

-----------------------------------------------------------------------------
(* One draw() call on a line of the letters H and i *)

AsciiTexts == UNION {[1..n -> {72, 105}] : n \in 0..MaxLen}

AsciiOpts ==
    {[DefaultOpts EXCEPT !.mode = m, !.scale = sc, !.ds2 = ds] :
        m \in Modes, sc \in {1, 2}, ds \in {2, 3}}

NextAscii ==
    \/ \E d \in {e \in {1} : pc[e] = "idle"} :
          \E t \in AsciiTexts, o \in AsciiOpts : DrawStart(d, t, o)
    \/ \E hi \in DOMAIN jobs[1] : LoadOk(1, hi)
    \/ \E hi \in DOMAIN jobs[1] : LoadFail(1, hi)
    \/ DrawResume(1)

SpecAscii == InitLayout /\ [][NextAscii]_vars

-----------------------------------------------------------------------------
(* _normalizeGlyph00LeftMargins on the canvas of glyph_00.png.  A canvas    *)
(* maps the corner <<x0, y0>> of a tile to the alpha bytes of the tile,     *)
(* data[y * tileW + x]; the colour bytes of a pixel travel with its alpha.  *)

tileW == 16
tileH == 16
start == 32
end == 126

\* number of applications followed
MaxPasses == 2
\* rightmost column, next to the last one, that the decoded tiles have
\* opaque pixels in
MaxInkCol == 3

\* the tiles followed: the ends of the range start..end and their
\* neighbours outside it
TileCodes == {start - 1, start, end, end + 1}

\* the corner of the tile of a code: x0 = cx * tileW, y0 = cy * tileH
tileRect(code) == <<(code % grid) * tileW, (code \div grid) * tileH>>

TilePixels == 0..(tileW * tileH - 1)

\* the pixels a decoded tile may have opaque: top and bottom row, the
\* columns 0..MaxInkCol and the last one
InkPixels ==
    {y * tileW + x : y \in {0, tileH - 1}, x \in (0..MaxInkCol) \cup {tileW - 1}}

\* leftOpaqueX(data)
leftOpaqueX(data) ==
    LET xs == {x \in 0..(tileW - 1) :
                  \E y \in 0..(tileH - 1) : data[y * tileW + x] > 0}
    IN  IF xs = {} THEN -1
        ELSE CHOOSE x \in xs : \A x2 \in xs : x <= x2

\* the ImageData out after the copy loop: dst[y, x - shift] = src[y, x] for
\* x - shift >= 0, every other byte as createImageData left it
shiftTile(src, shift) ==
    [di \in TilePixels |->
        LET y == di \div tileW
            x == (di % tileW) + shift
        IN  IF x < tileW THEN src[y * tileW + x] ELSE 0]

\* mutant of normalizeTile: the tile moves one column per application
normalizeTileByOne(src) ==
    IF leftOpaqueX(src) <= 1 THEN src ELSE shiftTile(src, 1)

\* the body of the loop over the codes: what putImageData leaves in the
\* tile, the tile itself after "continue"
normalizeTile(src) ==
    LET left == leftOpaqueX(src)
    IN  IF left <= 1 THEN src ELSE shiftTile(src, left - 1)

normalizeGlyph00LeftMargins(cv) ==
    [r \in DOMAIN cv |->
        IF \E code \in start..end : tileRect(code) = r
        THEN normalizeTile(cv[r])
        ELSE cv[r]]

\* the renderer as constructed, and the canvas _loadAtlas has drawn
\* glyph_00.png on, the tiles followed holding the same pixels
InitNormalize ==
    /\ ascii = <<>>
    /\ quoteAlt = [code \in {} |-> buildAlt(code)]
    /\ glyphs = [hi \in {} |-> loadAtlas(hi, 0)]
    /\ pc = [d \in Draws |-> "idle"]
    /\ text = [d \in Draws |-> <<>>]
    /\ opts = [d \in Draws |-> DefaultOpts]
    /\ need = [d \in Draws |-> {}]
    /\ jobs = [d \in Draws |-> NoJobs]
    /\ plan = [d \in Draws |-> NoPlan]
    /\ gl = [d \in Draws |-> <<>>]
    /\ \E ink \in SUBSET InkPixels :
          canvas = <<[r \in {tileRect(code) : code \in TileCodes} |->
                        [p \in TilePixels |-> IF p \in ink THEN 255 ELSE 0]]>>

\* this._normalizeGlyph00LeftMargins(ctx)
Normalize ==
    /\ Len(canvas) <= MaxPasses
    /\ canvas' = Append(canvas, normalizeGlyph00LeftMargins(canvas[Len(canvas)]))
    /\ UNCHANGED <<ascii, quoteAlt, glyphs, pc, text, opts, need, jobs, plan, gl>>

NextNormalize == Normalize

SpecNormalize == InitNormalize /\ [][NextNormalize]_vars

-----------------------------------------------------------------------------
(* Claims about the atlas cache under overlapping draw() calls (Spec) *)

Called(d) == pc[d] \in {"awaiting", "done", "rejected"}

\* the calls whose load job for page hi is in flight
InFlight(hi) == {d \in Draws : hi \in DOMAIN jobs[d] /\ jobs[d][hi] = "pending"}

JobPages == UNION {DOMAIN jobs[d] : d \in Draws}

HasQuads(d) == \E k \in 1..Len(gl[d]) : gl[d][k].op = "drawArrays"

\* C1: requests for an uncached page are deduplicated: at no time are two
\* loads of the same page in flight.
C1_AtMostOneLoadInFlight ==
    \A hi \in JobPages : Cardinality(InFlight(hi)) <= 1

\* C2: once a pack is installed in the cache under a page, that entry is
\* never replaced by another pack, so that every call that requested the
\* page sees the same pack.
C2_EntryNeverReplaced ==
    [][\A hi \in DOMAIN glyphs : glyphs'[hi] = glyphs[hi]]_vars

\* C3: a failed load of a page rejects the draw() call that awaits it, is
\* never installed in the cache (a page is cached only by a job that
\* succeeded, and a call that finds it uncached starts a job for it), the
\* rejected call makes no clear and no draw call, and the call's other jobs
\* still run to their end and install their pages.
C3_FailedLoad ==
    /\ \A d \in Draws :
          /\ (\E hi \in DOMAIN jobs[d] : jobs[d][hi] = "failed") => pc[d] = "rejected"
          /\ pc[d] = "rejected" =>
                /\ gl[d] = <<[op |-> "viewport"]>>
                /\ plan[d] = NoPlan
                /\ \E hi \in DOMAIN jobs[d] : jobs[d][hi] = "failed"
          /\ \A hi \in DOMAIN jobs[d] :
                /\ jobs[d][hi] = "done" => hi \in DOMAIN glyphs
                /\ jobs[d][hi] = "pending" => ENABLED LoadOk(d, hi)
          /\ Called(d) =>
                \A hi \in need[d] : hi \in DOMAIN glyphs \/ hi \in DOMAIN jobs[d]
    /\ \A hi \in DOMAIN glyphs :
          LET by == glyphs[hi].tex[2]
          IN  by # 0 => (hi \in DOMAIN jobs[by] /\ jobs[by][hi] = "done")

\* C3 witness: a call was rejected by the failed load of one page, that
\* page is not cached, and another page of the same call is cached by it.
C3_Witness ==
    \E d \in Draws : \E hi \in DOMAIN jobs[d], other \in DOMAIN jobs[d] :
        /\ pc[d] = "rejected"
        /\ jobs[d][hi] = "failed"
        /\ hi \notin DOMAIN glyphs
        /\ jobs[d][other] = "done"
        /\ other \in DOMAIN glyphs
        /\ glyphs[other].tex[2] = d

\* C6: a draw() call has emitted quads only if every page of its need set
\* is installed in the cache and none of its load jobs is still in flight.
C6_FullBarrier ==
    \A d \in Draws :
        HasQuads(d) =>
            \A hi \in need[d] :
                /\ hi \in DOMAIN glyphs
                /\ hi \in DOMAIN jobs[d] => jobs[d][hi] = "done"

\* C6 witness: a call that waited for two loads of its own has emitted
\* quads.
C6_Witness ==
    \E d \in Draws :
        /\ pc[d] = "done"
        /\ HasQuads(d)
        /\ Cardinality(DOMAIN jobs[d]) >= 2
        /\ \E e \in Draws \ {d} : pc[e] = "awaiting"

-----------------------------------------------------------------------------
(* Claims about one draw() call (SpecLayout) *)

Done(d) == pc[d] = "done"

HasAscii(t) == \E cp \in Range(CodePoints(t)) : isAsciiCode(cp)
HasNonAscii(t) == \E cp \in Range(CodePoints(t)) : ~isAsciiCode(cp)

\* the plan a call with the text and options of call d, but mode m, makes
\* from the cache
PlanWithMode(d, m) ==
    layout(text[d], [opts[d] EXCEPT !.mode = m], ascii[1], quoteAlt, glyphs)

\* C4 as claimed: mode 'auto' plans as mode 'default' on a text that is
\* all ASCII and as mode 'mixed' on any other text.
C4_AutoIsDefaultOrMixed ==
    \A d \in Draws :
        (Done(d) /\ opts[d].mode = "auto") =>
            LET m == IF AllAscii(text[d]) THEN "default" ELSE "mixed"
            IN  /\ need[d] = needOf(text[d], m)
                /\ plan[d] = PlanWithMode(d, m)

\* C4 as amended: mode 'auto' requests the pages of, and plans as, mode
\* 'default' on a text that is all ASCII and mode 'glyph' on any other text.
C4_AutoIsDefaultOrGlyph ==
    \A d \in Draws :
        (Done(d) /\ opts[d].mode = "auto") =>
            LET m == IF AllAscii(text[d]) THEN "default" ELSE "glyph"
            IN  /\ need[d] = needOf(text[d], m)
                /\ plan[d] = PlanWithMode(d, m)

\* C4 witness: an 'auto' call on a text with an ASCII letter and a wide
\* character has emitted a quad for each.
C4_Witness ==
    \E d \in Draws :
        /\ Done(d)
        /\ opts[d].mode = "auto"
        /\ text[d] = <<65, 44032>>
        /\ Len(plan[d].spans) = 2

\* whether wide rendering is possible for a call, as the claim lists it
WidePossible(t, m) ==
    m = "glyph" \/ m = "mixed" \/ (m = "auto" /\ HasNonAscii(t))

\* C5: the need set of a call holds the high byte of every non-ASCII code
\* point the loop renders from a wide atlas, and page 00 whenever wide
\* rendering is possible.
C5_PagesRequested ==
    \A d \in Draws :
        Called(d) =>
            /\ WidePossible(text[d], opts[d].mode) => "00" \in need[d]
            /\ \A i \in 1..Len(text[d]) :
                  LET cp == codePointAt(text[d], i)
                  IN  (opts[d].mode # "default" /\ ~isAsciiCode(cp)) =>
                          codeHi(cp) \in need[d]


\* the indices of the text, from i on, at which the loop emits a quad:
\* those whose code point is not a space
RECURSIVE EmitIdxFrom(_, _)
EmitIdxFrom(t, i) ==
    IF i > Len(t) THEN <<>>
    ELSE (IF codePointAt(t, i) # 32 THEN <<i>> ELSE <<>>) \o EmitIdxFrom(t, i + 1)

EmitIdx(t) == EmitIdxFrom(t, 1)

\* whether the character of code point cp is emitted as a wide glyph
IsWideClass(t, m, cp) ==
    LET dOnly == defaultOnlyOf(t, m)
    IN  dOnly = "false" \/ (dOnly = "null" /\ ~isAsciiCode(cp))

\* the reference centre of baseline 'glyph', in quarters: the centre of the
\* cached page 00, else twice the centre of the ASCII atlas
WideRefCenter4 ==
    IF "00" \in DOMAIN glyphs THEN 2 * glyphs["00"].centerRow2
    ELSE 4 * ascii[1].centerRow2

\* every quad of call d is shifted by round(scale x (refCenter - own centre)),
\* the own centre being that of the ASCII atlas times ds for an ASCII-class
\* quad and that of the quad's atlas for a wide-class quad
QuadsOnRefCenter(d) ==
    LET t == text[d]
        o == opts[d]
        idx == EmitIdx(t)
    IN  /\ Len(plan[d].spans) = Len(idx)
        /\ \A j \in 1..Len(idx) :
              LET q == plan[d].spans[j]
                  own4 == IF IsWideClass(t, o.mode, codePointAt(t, idx[j]))
                          THEN 2 * q.pack.centerRow2
                          ELSE ascii[1].centerRow2 * o.ds2
              IN  q.y = Round(o.scale * (plan[d].refCenter4 - own4), 4)

MixedLine(t) == HasAscii(t) /\ HasNonAscii(t)

\* C7 as claimed: on a line with an ASCII and a non-ASCII character, in
\* every mode, baseline 'auto' takes the reference centre of baseline
\* 'glyph', and every quad is shifted onto it.
C7_AutoBaselineAnyMode ==
    \A d \in Draws :
        (Done(d) /\ MixedLine(text[d]) /\ opts[d].baseline = "auto") =>
            /\ plan[d].refCenter4 = WideRefCenter4
            /\ QuadsOnRefCenter(d)

\* C7 as amended: the same in the modes 'glyph', 'mixed' and 'auto'; in mode
\* 'default' the quads are still shifted onto the one reference centre,
\* which baseline 'auto' then takes from the ASCII atlas times ds.
C7_AutoBaselineWideModes ==
    \A d \in Draws :
        (Done(d) /\ MixedLine(text[d])) =>
            /\ (opts[d].baseline \in {"auto", "glyph"} /\ opts[d].mode # "default") =>
                  plan[d].refCenter4 = WideRefCenter4
            /\ (opts[d].baseline = "auto" /\ opts[d].mode = "default") =>
                  plan[d].refCenter4 = ascii[1].centerRow2 * opts[d].ds2
            /\ QuadsOnRefCenter(d)

\* C7 witness: a 'mixed' call with baseline 'auto' has emitted an ASCII
\* quad and a wide quad at different vertical offsets, page 00 being cached.
C7_Witness ==
    \E d \in Draws :
        /\ Done(d)
        /\ opts[d].mode = "mixed"
        /\ opts[d].baseline = "auto"
        /\ text[d] = <<65, 44032>>
        /\ "00" \in DOMAIN glyphs
        /\ Len(plan[d].spans) = 2
        /\ plan[d].spans[1].y # plan[d].spans[2].y

\* the number of the occurrence of the code unit at index i among the equal
\* code units of the text: 1 for the first
OccurrenceNo(t, i) == Cardinality({j \in 1..i : t[j] = t[i]})

FracEq(a, b) == a.n * b.d = b.n * a.d

RECURSIVE Flatten(_)
Flatten(runs) ==
    IF runs = <<>> THEN <<>> ELSE Head(runs).list \o Flatten(Tail(runs))

\* the number of atlas binds the spans need in emission order: one for the
\* first quad and one for every quad whose atlas differs from the one before
AtlasSwitches(spans) ==
    Cardinality({i \in 1..Len(spans) : i = 1 \/ spans[i].pack # spans[i - 1].pack})

\* C9: the runs of a plan concatenate to its spans; a run is not empty and
\* holds quads of its one atlas; consecutive runs differ in their atlas; so
\* there are as many runs as atlas switches in emission order.
C9_Batching ==
    \A d \in Draws :
        Done(d) =>
            LET runs == plan[d].runs
            IN  /\ Flatten(runs) = plan[d].spans
                /\ \A k \in 1..Len(runs) :
                      /\ runs[k].list # <<>>
                      /\ \A j \in 1..Len(runs[k].list) : runs[k].list[j].pack = runs[k].pack
                /\ \A k \in 1..(Len(runs) - 1) : runs[k].pack # runs[k + 1].pack
                /\ Len(runs) = AtlasSwitches(plan[d].spans)

\* C9 witness: a plan of three runs whose first and last are of the same
\* atlas.
C9_Witness ==
    \E d \in Draws :
        /\ Done(d)
        /\ Len(plan[d].runs) = 3
        /\ Len(plan[d].spans) = 3
        /\ plan[d].runs[1].pack = plan[d].runs[3].pack

RECURSIVE QuadCount(_)
QuadCount(calls) ==
    IF calls = <<>> THEN 0
    ELSE (IF Head(calls).op = "drawArrays" THEN Len(Head(calls).list) ELSE 0)
         + QuadCount(Tail(calls))

\* C10: after the viewport and the clear, a call with shadow issues every
\* run at offset (scale, scale) in the shadow colour and then every run at
\* offset (0, 0) in the requested colour, 2 x (plan quads) quads in all; a
\* call without shadow issues every run once at offset (0, 0).
C10_ShadowPass ==
    \A d \in Draws :
        Done(d) =>
            LET runs == plan[d].runs
                n == Len(runs)
                o == opts[d]
                calls == SubSeq(gl[d], 3, Len(gl[d]))
                pass(k, color, off) ==
                    /\ calls[k].op = "drawArrays"
                    /\ calls[k].color = color
                    /\ calls[k].ox = off /\ calls[k].oy = off
            IN  /\ gl[d][1].op = "viewport" /\ gl[d][2].op = "clear"
                /\ QuadCount(gl[d]) = (IF o.shadow THEN 2 ELSE 1) * Len(plan[d].spans)
                /\ Len(calls) = (IF o.shadow THEN 2 ELSE 1) * n
                /\ \A k \in 1..n :
                      LET c == IF o.shadow THEN n + k ELSE k
                      IN  /\ pass(c, "color", 0)
                          /\ calls[c].pack = runs[k].pack
                          /\ calls[c].list = runs[k].list
                          /\ o.shadow =>
                                /\ pass(k, "shadow", o.scale)
                                /\ calls[k].pack = runs[k].pack
                                /\ calls[k].list = runs[k].list

\* C10 witness: a call with shadow has issued two runs twice.
C10_Witness ==
    \E d \in Draws :
        /\ Done(d)
        /\ opts[d].shadow
        /\ Len(plan[d].runs) = 2
        /\ Len(gl[d]) = 6

-----------------------------------------------------------------------------
(* Claims about spaces, tracking and padding (SpecLayout) *)

\* what iteration i of the loop added to penX
StepAt(d, i) ==
    plan[d].pens[i] - (IF i = 1 THEN 0 ELSE plan[d].pens[i - 1])

\* the nearest code unit that is not a space on each side of index i, as a
\* set of at most one index
PrevNonSpace(t, i) ==
    {j \in 1..(i - 1) : t[j] # 32 /\ \A k \in (j + 1)..(i - 1) : t[k] = 32}
NextNonSpace(t, i) ==
    {j \in (i + 1)..Len(t) : t[j] # 32 /\ \A k \in (i + 1)..(j - 1) : t[k] = 32}

\* the ASCII atlas's space advance x spaceMul, and the wide one (page 00's
\* entry, 17 while page 00 is not in the cache), in pixels of the canvas
AsciiSpaceStep(o) ==
    Round(Round(FontAdv("ASCII", 32) * o.ds2 * o.scale, 2) * o.spaceMul2, 2)
WideSpaceStep(o) ==
    LET adv == IF "00" \in DOMAIN glyphs THEN FontAdv("00", 32) ELSE 17
    IN  Round(Round(adv * o.scale, 1) * o.spaceMul2, 2)

\* C11: in mode 'mixed' every space advances the pen by the ASCII space
\* advance x spaceMul when the nearest non-space neighbour on each side is
\* ASCII, an absent neighbour counting as ASCII, and by the wide space
\* advance x spaceMul otherwise; a space emits no quad
C11_SmartSpace ==
    \A d \in Draws :
        (Done(d) /\ opts[d].mode = "mixed") =>
            /\ Len(plan[d].spans) = Cardinality({i \in 1..Len(text[d]) : text[d][i] # 32})
            /\ \A i \in 1..Len(text[d]) :
                  text[d][i] = 32 =>
                      LET t == text[d]
                          sidesAscii ==
                              /\ \A j \in PrevNonSpace(t, i) : isAsciiCode(t[j])
                              /\ \A j \in NextNonSpace(t, i) : isAsciiCode(t[j])
                      IN  StepAt(d, i) = IF sidesAscii THEN AsciiSpaceStep(opts[d])
                                         ELSE WideSpaceStep(opts[d])

-----------------------------------------------------------------------------
(* Claims about the line "Hi" (SpecAscii) *)

\* draw("Hi", {mode: 'default', scale: 1, ds}) has run to its end
HiDrawn(d, ds2) ==
    /\ Done(d)
    /\ text[d] = <<72, 105>>
    /\ opts[d] = [DefaultOpts EXCEPT !.mode = "default", !.scale = 1, !.ds2 = ds2]

\* C12 as stated: draw("Hi") in mode 'default' with scale 1 and every other
\* option at its default emits 2 quads in a single run, and the pen ends at
\* advance('H') + advance('i')
C12_HiPenIsAdvanceSum ==
    \A d \in Draws :
        HiDrawn(d, DefaultOpts.ds2) =>
            /\ Len(plan[d].spans) = 2
            /\ Len(plan[d].runs) = 1
            /\ plan[d].penX = FontAdv("ASCII", 72) + FontAdv("ASCII", 105)

\* C12 amended: draw("Hi") in mode 'default' with scale 1 emits 2 quads in a
\* single run of the ASCII atlas, and the pen ends at
\* round(ds x advance('H')) + round(ds x advance('i')), ds being 1.5 by
\* default; that is advance('H') + advance('i') when ds is 1
C12_HiPenIsScaledAdvanceSum ==
    \A d \in Draws : \A ds2 \in {2, 3} :
        HiDrawn(d, ds2) =>
            /\ Len(plan[d].spans) = 2
            /\ Len(plan[d].runs) = 1
            /\ plan[d].runs[1].pack = ascii[1]
            /\ plan[d].penX = Round(ds2 * FontAdv("ASCII", 72), 2)
                              + Round(ds2 * FontAdv("ASCII", 105), 2)
            /\ (ds2 = 2 => plan[d].penX = FontAdv("ASCII", 72) + FontAdv("ASCII", 105))

C12_Witness ==
    /\ HiDrawn(1, DefaultOpts.ds2)
    /\ plan[1].penX = 12

-----------------------------------------------------------------------------
(* Claims about the left margins of page 00 (SpecNormalize) *)

\* the columns of a tile that hold an opaque pixel
InkColumns(tile) == {p % tileW : p \in {q \in TilePixels : tile[q] # 0}}

InRange(r) == \E code \in TileCodes : code >= 32 /\ code <= 126 /\ tileRect(code) = r

\* C13: applying the normalization twice yields the pixels of applying it
\* once; after one application every tile 32..126 that has an opaque pixel
\* has its leftmost opaque column at 0 or 1, and the tiles outside 32..126
\* are as decoded
C13_NormalizeIdempotent ==
    /\ \A k \in 2..Len(canvas) :
          \A r \in DOMAIN canvas[k] :
              IF InRange(r)
              THEN InkColumns(canvas[k][r]) # {} =>
                      (0 \in InkColumns(canvas[k][r]) \/ 1 \in InkColumns(canvas[k][r]))
              ELSE canvas[k][r] = canvas[1][r]
    /\ \A k \in 3..Len(canvas) : canvas[k] = canvas[2]

\* two applications have run, and the first one moved a tile whose ink
\* reached the last column
C13_Witness ==
    /\ Len(canvas) = 3
    /\ \E r \in DOMAIN canvas[1] :
          /\ canvas[2][r] # canvas[1][r]
          /\ (tileW - 1) \in InkColumns(canvas[1][r])
          /\ ~ (0 \in InkColumns(canvas[1][r]) \/ 1 \in InkColumns(canvas[1][r]))

-----------------------------------------------------------------------------
(* Claims about tracking and padding (SpecLayout) *)

\* the distance between the pen as iteration i found it and the quad the
\* iteration emitted, quad j of the call
ExtraBefore(d, j) ==
    LET i == EmitIdx(text[d])[j]
    IN  plan[d].spans[j].x - (IF i = 1 THEN 0 ELSE plan[d].pens[i - 1])

\* whether iteration i of the call emitted a wide glyph
EmittedWide(d, i) ==
    /\ i >= 1
    /\ codePointAt(text[d], i) # 32
    /\ IsWideClass(text[d], opts[d].mode, codePointAt(text[d], i))

\* C14: a wide glyph is preceded by round(scale x glyphTrackPx), and in
\* mode 'mixed' an ASCII glyph by round(scale x asciiAfterGlyphPadPx),
\* exactly when the iteration before it emitted a wide glyph; the first
\* glyph of the line and the first glyph after a space are preceded by
\* nothing
C14_PrevKindTracking ==
    \A d \in Draws :
        Done(d) =>
            \A j \in 1..Len(plan[d].spans) :
                LET i == EmitIdx(text[d])[j]
                    o == opts[d]
                IN  ExtraBefore(d, j) =
                        IF ~EmittedWide(d, i - 1) THEN 0
                        ELSE IF EmittedWide(d, i) THEN Round(o.scale * o.glyphTrackPx2, 2)
                        ELSE IF o.mode = "mixed" THEN Round(o.scale * o.asciiAfterGlyphPadPx2, 2)
                        ELSE 0

\* a mixed line with tracking before its second glyph, padding before its
\* third, and a line whose space cut the tracking
C14_Witness ==
    /\ Done(1)
    /\ opts[1].mode = "mixed"
    /\ text[1] = <<44032, 44032, 65>>
    /\ ExtraBefore(1, 1) = 0
    /\ ExtraBefore(1, 2) > 0
    /\ ExtraBefore(1, 3) > ExtraBefore(1, 2)

-----------------------------------------------------------------------------
(* Claims about the UV rectangles (SpecLayout) *)

\* the side, in pixels, of the tiles of the atlas of a pack
TileSizeOf(pack) == IF pack.tex[1] \in {"ASCII", "quoteAlt"} THEN 8 ELSE 16

\* a <= b and a < b for fractions of positive denominator
FracLe(a, b) == a.n * b.d <= b.n * a.d
FracLt(a, b) == a.n * b.d < b.n * a.d

\* whether the UV rectangle of a quad lies inside its atlas and is one tile
\* of the grid of that atlas
OneTileInside(q) ==
    LET size == TileSizeOf(q.pack)
    IN  /\ FracLe(Frac(0, 1), q.u0) /\ FracLt(q.u0, q.u1) /\ FracLe(q.u1, Frac(1, 1))
        /\ FracLe(Frac(0, 1), q.v0) /\ FracLt(q.v0, q.v1) /\ FracLe(q.v1, Frac(1, 1))
        /\ (q.u1.n * q.u0.d - q.u0.n * q.u1.d) * q.pack.w = size * q.u0.d * q.u1.d
        /\ (q.v1.n * q.v0.d - q.v0.n * q.v1.d) * q.pack.h = size * q.v0.d * q.v1.d
        /\ (q.u0.n * q.pack.w) % (size * q.u0.d) = 0
        /\ (q.v0.n * q.pack.h) % (size * q.v0.d) = 0

\* C15: every quad draw() emits has a UV rectangle inside its atlas,
\* 0 <= u0 < u1 <= 1 and 0 <= v0 < v1 <= 1, that covers exactly one tile of
\* the tile size of that atlas
C15_UvInsideAtlas ==
    \A d \in Draws :
        Done(d) => \A j \in 1..Len(plan[d].spans) : OneTileInside(plan[d].spans[j])

=============================================================================
